---- MODULE Spec2Model ----
(***************************************************************************)
(* A model of generate_themes.py: the HSL -> hex conversion (with the     *)
(* IEEE-754 double arithmetic Python performs), the collision-avoiding     *)
(* colour derivation of ThemeGenerator, the 89-role theme assembly, the   *)
(* theme-file writer and main()'s delete / regenerate run.                 *)
(***************************************************************************)
EXTENDS Integers, Sequences, FiniteSets, TLC

(***************************************************************************)
(* Unsigned big integers: little-endian sequences of limbs in 0..Base-1    *)
(* without high zero limbs (<<>> is 0).  They carry the 53-bit significands*)
(* of Python floats and the exact intermediate results before rounding.    *)
(***************************************************************************)
LimbBits == 15
Base == 2^LimbBits

Max(a, b) == IF a >= b THEN a ELSE b
Min(a, b) == IF a <= b THEN a ELSE b

Limb(a, i) == IF i >= 1 /\ i <= Len(a) THEN a[i] ELSE 0

RECURSIVE Trim(_)
Trim(a) ==
    IF a = <<>> THEN a
    ELSE IF a[Len(a)] = 0 THEN Trim(SubSeq(a, 1, Len(a) - 1)) ELSE a

Zeros(n) == [i \in 1..n |-> 0]

RECURSIVE AddFrom(_, _, _, _)
AddFrom(a, b, i, c) ==
    IF i > Len(a) /\ i > Len(b)
    THEN IF c = 0 THEN <<>> ELSE <<c>>
    ELSE LET t == Limb(a, i) + Limb(b, i) + c
         IN  <<t % Base>> \o AddFrom(a, b, i + 1, t \div Base)

BAdd(a, b) == AddFrom(a, b, 1, 0)

RECURSIVE SubFrom(_, _, _, _)
SubFrom(a, b, i, c) ==
    IF i > Len(a) THEN <<>>
    ELSE LET t == Limb(a, i) - Limb(b, i) - c
         IN  IF t < 0 THEN <<t + Base>> \o SubFrom(a, b, i + 1, 1)
                      ELSE <<t>> \o SubFrom(a, b, i + 1, 0)

\* a - b for a >= b
BSub(a, b) == Trim(SubFrom(a, b, 1, 0))

RECURSIVE CmpFrom(_, _, _)
CmpFrom(a, b, i) ==
    IF i = 0 THEN 0
    ELSE IF a[i] < b[i] THEN -1
    ELSE IF a[i] > b[i] THEN 1
    ELSE CmpFrom(a, b, i - 1)

\* -1, 0, 1 as a < b, a = b, a > b
BCmp(a, b) ==
    IF Len(a) < Len(b) THEN -1
    ELSE IF Len(a) > Len(b) THEN 1
    ELSE CmpFrom(a, b, Len(a))

RECURSIVE MulSmallFrom(_, _, _, _)
MulSmallFrom(a, k, i, c) ==
    IF i > Len(a)
    THEN IF c = 0 THEN <<>> ELSE <<c>>
    ELSE LET t == a[i] * k + c
         IN  <<t % Base>> \o MulSmallFrom(a, k, i + 1, t \div Base)

\* a * k for 0 <= k < Base
BMulSmall(a, k) == IF k = 0 THEN <<>> ELSE MulSmallFrom(a, k, 1, 0)

RECURSIVE MulFrom(_, _, _)
MulFrom(a, b, j) ==
    IF j > Len(b) THEN <<>>
    ELSE BAdd(BMulSmall(a, b[j]), <<0>> \o MulFrom(a, b, j + 1))

BMul(a, b) == Trim(MulFrom(a, b, 1))

\* a * 2^n
BShl(a, n) ==
    IF a = <<>> THEN a
    ELSE Zeros(n \div LimbBits) \o BMulSmall(a, 2^(n % LimbBits))

\* floor(a / 2^n)
BShr(a, n) ==
    LET q == n \div LimbBits
        r == n % LimbBits
    IN  IF q >= Len(a) THEN <<>>
        ELSE Trim([i \in 1..(Len(a) - q) |->
                     (a[i + q] \div 2^r)
                       + (Limb(a, i + q + 1) % 2^r) * 2^(LimbBits - r)])

\* a mod 2^n
BLow(a, n) ==
    LET q == n \div LimbBits
        r == n % LimbBits
    IN  IF q >= Len(a) THEN a
        ELSE Trim([i \in 1..(q + 1) |-> IF i <= q THEN a[i] ELSE a[i] % 2^r])

SmallBitLen(x) == CHOOSE k \in 1..LimbBits : 2^(k - 1) <= x /\ x < 2^k

BitLen(a) ==
    IF a = <<>> THEN 0
    ELSE LimbBits * (Len(a) - 1) + SmallBitLen(a[Len(a)])

\* bit k (k >= 0) of a
BBit(a, k) == (Limb(a, k \div LimbBits + 1) \div 2^(k % LimbBits)) % 2

BOdd(a) == a # <<>> /\ a[1] % 2 = 1

RECURSIVE DivSmallFrom(_, _, _, _)
DivSmallFrom(a, d, i, r) ==
    IF i = 0 THEN [q |-> <<>>, r |-> r]
    ELSE LET cur  == r * Base + a[i]
             rest == DivSmallFrom(a, d, i - 1, cur % d)
         IN  [q |-> rest.q \o <<cur \div d>>, r |-> rest.r]

TrimQuotient(qr) == [q |-> Trim(qr.q), r |-> qr.r]

\* quotient and remainder of a by d, 0 < d < Base
BDivSmall(a, d) == TrimQuotient(DivSmallFrom(a, d, Len(a), 0))

\* a as an integer, for a < Base^2
BToInt(a) == Limb(a, 1) + Base * Limb(a, 2)

(***************************************************************************)
(* Python floats (IEEE-754 binary64, round to nearest, ties to even).  A   *)
(* float is [neg, m, e] with value (-1)^neg * m * 2^e and m < 2^Precision. *)
(* The values that occur lie in (2^-200, 2^10): neither overflow nor       *)
(* subnormals arise.                                                       *)
(***************************************************************************)
Precision == 53

FZero == [neg |-> FALSE, m |-> <<>>, e |-> 0]

\* q, one more where the bits dropped below it are more than half a unit, or
\* half a unit and q is odd
RoundedUp(q, half, sticky) ==
    IF half /\ (sticky \/ BOdd(q)) THEN BAdd(q, <<1>>) ELSE q

\* the float of significand q, which rounding up may have carried to 2^Precision
Normal(neg, q, e) ==
    IF BitLen(q) > Precision THEN [neg |-> neg, m |-> BShr(q, 1), e |-> e + 1]
    ELSE [neg |-> neg, m |-> q, e |-> e]

\* M, of n bits, rounded to Precision bits
RoundBits(neg, M, e, n) ==
    IF n = 0 THEN FZero
    ELSE IF n <= Precision THEN [neg |-> neg, m |-> M, e |-> e]
    ELSE Normal(neg,
                RoundedUp(BShr(M, n - Precision), BBit(M, n - Precision - 1) = 1,
                          BLow(M, n - Precision - 1) # <<>>),
                e + n - Precision)

\* the float nearest to (-1)^neg * M * 2^e
Round(neg, M, e) == RoundBits(neg, M, e, BitLen(M))

FFromInt(n) ==
    IF n = 0 THEN FZero
    ELSE [neg |-> n < 0, m |-> Trim(<<(IF n < 0 THEN -n ELSE n) % Base,
                                      (IF n < 0 THEN -n ELSE n) \div Base>>),
          e |-> 0]

FNeg(x) == IF x.m = <<>> THEN x ELSE [x EXCEPT !.neg = ~x.neg]

\* -1, 0, 1 as |x| < |y|, |x| = |y|, |x| > |y|, for non-zero x and y
FCmpMag(x, y) ==
    BCmp(BShl(x.m, x.e - Min(x.e, y.e)), BShl(y.m, y.e - Min(x.e, y.e)))

\* the sum of (-1)^xneg * X * 2^e and (-1)^yneg * Y * 2^e, where c compares
\* X with Y
AddAligned(xneg, X, yneg, Y, e, c) ==
    Round(IF xneg = yneg \/ c > 0 THEN xneg ELSE yneg,
          IF xneg = yneg THEN BAdd(X, Y)
          ELSE IF c > 0 THEN BSub(X, Y)
          ELSE IF c < 0 THEN BSub(Y, X)
          ELSE <<>>,
          e)

FAdd(x, y) ==
    IF x.m = <<>> THEN y
    ELSE IF y.m = <<>> THEN x
    ELSE AddAligned(x.neg, BShl(x.m, x.e - Min(x.e, y.e)),
                    y.neg, BShl(y.m, y.e - Min(x.e, y.e)),
                    Min(x.e, y.e), FCmpMag(x, y))

FSub(x, y) == FAdd(x, FNeg(y))

FMul(x, y) ==
    IF x.m = <<>> \/ y.m = <<>> THEN FZero
    ELSE Round(x.neg # y.neg, BMul(x.m, y.m), x.e + y.e)

\* x < y
FLess(x, y) ==
    IF x.m = <<>> THEN y.m # <<>> /\ ~y.neg
    ELSE IF y.m = <<>> THEN x.neg
    ELSE IF x.neg # y.neg THEN x.neg
    ELSE IF x.neg THEN FCmpMag(x, y) > 0
    ELSE FCmpMag(x, y) < 0

FLessEq(x, y) == ~FLess(y, x)

\* the float nearest to a quotient given to 75 fractional bits with its
\* remainder: a sticky bit stands for the remainder
QuotientFloat(qr) ==
    Round(FALSE, BAdd(BMulSmall(qr.q, 2), IF qr.r = 0 THEN <<>> ELSE <<1>>),
          -(5 * LimbBits + 1))

\* a / b for integers 0 <= a < Base, 0 < b < Base (true division, correctly
\* rounded)
FDivInt(a, b) ==
    IF a = 0 THEN FZero ELSE QuotientFloat(BDivSmall(Zeros(5) \o <<a>>, b))

\* int(x): truncation towards zero (|x| < Base^2)
FToInt(x) ==
    (IF x.neg THEN -1 ELSE 1)
        * (IF x.e >= 0 THEN BToInt(BShl(x.m, x.e)) ELSE BToInt(BShr(x.m, -x.e)))

\* the fractional part of x, with the sign of x (C fmod(x, 1.0), exact)
FFrac(x) ==
    IF x.e >= 0 \/ BLow(x.m, -x.e) = <<>> THEN FZero
    ELSE [neg |-> x.neg, m |-> BLow(x.m, -x.e), e |-> x.e]

\* float.__mod__ on fmod's result: a non-zero negative remainder has the
\* divisor 1.0 added, with rounding
FModAdjust(frac) ==
    IF frac.m # <<>> /\ frac.neg THEN FAdd(frac, FFromInt(1)) ELSE frac

\* x % 1.0
FMod1(x) == FModAdjust(FFrac(x))

(***************************************************************************)
(* colorsys.hls_to_rgb, as called by hsl_to_hex.                           *)
(***************************************************************************)
\* 1.0/3.0, 1.0/6.0 and 2.0/3.0 share the significand 0x15555555555555
\* (6004799503160661), written out in limbs
ThirdM == <<21845, 10922, 21845, 170>>
ONE_THIRD == [neg |-> FALSE, m |-> ThirdM, e |-> -54]
ONE_SIXTH == [neg |-> FALSE, m |-> ThirdM, e |-> -55]
TWO_THIRD == [neg |-> FALSE, m |-> ThirdM, e |-> -53]
FHalf == [neg |-> FALSE, m |-> <<1>>, e |-> -1]

\* m1 + (m2-m1)*x*6.0
Ramp(m1, m2, x) == FAdd(m1, FMul(FMul(FSub(m2, m1), x), FFromInt(6)))

\* colorsys._v after hue = hue % 1.0
VOf(m1, m2, hue) ==
    IF FLess(hue, ONE_SIXTH) THEN Ramp(m1, m2, hue)
    ELSE IF FLess(hue, FHalf) THEN m2
    ELSE IF FLess(hue, TWO_THIRD) THEN Ramp(m1, m2, FSub(TWO_THIRD, hue))
    ELSE m1

\* colorsys._v
V(m1, m2, hue) == VOf(m1, m2, FMod1(hue))

\* m2 of hls_to_rgb
M2(l, s) ==
    IF FLessEq(l, FHalf) THEN FMul(l, FAdd(FFromInt(1), s))
    ELSE FSub(FAdd(l, s), FMul(l, s))

\* the return of hls_to_rgb: <<r, g, b>>
Channels(h, m1, m2) ==
    <<V(m1, m2, FAdd(h, ONE_THIRD)), V(m1, m2, h), V(m1, m2, FSub(h, ONE_THIRD))>>

\* hls_to_rgb from m2 on: m1 = 2.0*l - m2
FromM2(h, l, m2) == Channels(h, FSub(FMul(FFromInt(2), l), m2), m2)

\* colorsys.hls_to_rgb
hls_to_rgb(h, l, s) ==
    IF s.m = <<>> THEN <<l, l, l>> ELSE FromM2(h, l, M2(l, s))

(***************************************************************************)
(* hsl_to_hex.  Colours are strings "#rrggbb".                             *)
(***************************************************************************)
HexDigit(d) == SubSeq("0123456789abcdef", d + 1, d + 1)

RECURSIVE HexDigits(_)
HexDigits(n) ==
    IF n < 16 THEN HexDigit(n) ELSE HexDigits(n \div 16) \o HexDigit(n % 16)

\* format(n, "02x"): sign, lowercase hex digits, zero-padded to width 2
Format02x(n) ==
    IF n < 0 THEN "-" \o HexDigits(-n)
    ELSE IF n < 16 THEN "0" \o HexDigits(n)
    ELSE HexDigits(n)

Clamp(lo, hi, x) == Max(lo, Min(hi, x))

\* f"{int(x*255):02x}"
Channel(x) == Format02x(FToInt(FMul(x, FFromInt(255))))

\* the f-string of hsl_to_hex
HexOf(rgb) == "#" \o Channel(rgb[1]) \o Channel(rgb[2]) \o Channel(rgb[3])

\* hsl_to_hex(h, s, l) for integer arguments
hsl_to_hex(h, s, l) ==
    HexOf(hls_to_rgb(FDivInt(Clamp(0, 360, h), 360),
                     FDivInt(Clamp(0, 100, l), 100),
                     FDivInt(Clamp(0, 100, s), 100)))

(***************************************************************************)
(* THEMES: the theme table, in its defined order.  attrs is the ordered    *)
(* dict of attribute overrides, as a sequence of <<key, value>> pairs.     *)
(***************************************************************************)
THEMES == <<
    [name |-> "protanopia", hues |-> <<210, 50, 270>>, sat |-> <<40, 70>>, attrs |-> <<>>],
    [name |-> "deuteranopia", hues |-> <<220, 45, 280>>, sat |-> <<40, 70>>, attrs |-> <<>>],
    [name |-> "tritanopia", hues |-> <<0, 120, 30>>, sat |-> <<50, 75>>, attrs |-> <<>>],
    [name |-> "achromatopsia", hues |-> <<0, 0, 0>>, sat |-> <<0, 8>>, attrs |-> <<>>],
    [name |-> "christmas", hues |-> <<0, 120, 45>>, sat |-> <<60, 85>>, attrs |-> <<<<"syntax_keyword_attr", "bold">>>>],
    [name |-> "easter", hues |-> <<300, 60, 180>>, sat |-> <<45, 65>>, attrs |-> <<<<"syntax_comment_attr", "italic">>>>],
    [name |-> "halloween", hues |-> <<25, 270, 0>>, sat |-> <<70, 90>>, attrs |-> <<<<"syntax_keyword_attr", "bold">>>>],
    [name |-> "thanksgiving", hues |-> <<25, 35, 15>>, sat |-> <<50, 75>>, attrs |-> <<>>],
    [name |-> "st-patricks", hues |-> <<120, 90, 150>>, sat |-> <<55, 80>>, attrs |-> <<<<"syntax_function_attr", "bold">>>>],
    [name |-> "valentines", hues |-> <<340, 0, 330>>, sat |-> <<60, 85>>, attrs |-> <<<<"syntax_string_attr", "italic">>>>],
    [name |-> "independence-day", hues |-> <<0, 220, 45>>, sat |-> <<70, 90>>, attrs |-> <<<<"syntax_keyword_attr", "bold">>>>],
    [name |-> "new-years", hues |-> <<45, 270, 0>>, sat |-> <<65, 85>>, attrs |-> <<<<"syntax_number_attr", "bold">>>>],
    [name |-> "hanukkah", hues |-> <<220, 45, 210>>, sat |-> <<55, 75>>, attrs |-> <<>>],
    [name |-> "diwali", hues |-> <<30, 45, 0>>, sat |-> <<70, 90>>, attrs |-> <<<<"syntax_keyword_attr", "bold">>>>],
    [name |-> "chinese-new-year", hues |-> <<0, 45, 30>>, sat |-> <<75, 90>>, attrs |-> <<<<"syntax_function_attr", "bold">>>>],
    [name |-> "mardi-gras", hues |-> <<270, 45, 120>>, sat |-> <<65, 85>>, attrs |-> <<>>],
    [name |-> "1820s-regency", hues |-> <<30, 45, 180>>, sat |-> <<25, 45>>, attrs |-> <<>>],
    [name |-> "1830s-romantic", hues |-> <<35, 280, 20>>, sat |-> <<25, 50>>, attrs |-> <<>>],
    [name |-> "1840s-victorian-early", hues |-> <<280, 40, 30>>, sat |-> <<30, 50>>, attrs |-> <<>>],
    [name |-> "1850s-victorian", hues |-> <<285, 45, 25>>, sat |-> <<35, 55>>, attrs |-> <<>>],
    [name |-> "1860s-civil-war", hues |-> <<210, 30, 0>>, sat |-> <<30, 55>>, attrs |-> <<>>],
    [name |-> "1870s-gilded", hues |-> <<45, 280, 35>>, sat |-> <<40, 60>>, attrs |-> <<>>],
    [name |-> "1880s-aesthetic", hues |-> <<120, 280, 45>>, sat |-> <<35, 55>>, attrs |-> <<>>],
    [name |-> "1890s-art-nouveau", hues |-> <<120, 45, 200>>, sat |-> <<40, 60>>, attrs |-> <<>>],
    [name |-> "1900s-edwardian", hues |-> <<30, 200, 280>>, sat |-> <<40, 60>>, attrs |-> <<>>],
    [name |-> "1910s-belle-epoque", hues |-> <<45, 300, 180>>, sat |-> <<40, 60>>, attrs |-> <<>>],
    [name |-> "1920s-art-deco", hues |-> <<45, 0, 180>>, sat |-> <<55, 75>>, attrs |-> <<<<"syntax_keyword_attr", "bold">>>>],
    [name |-> "1930s-depression", hues |-> <<35, 180, 20>>, sat |-> <<30, 55>>, attrs |-> <<>>],
    [name |-> "1940s-wartime", hues |-> <<120, 35, 200>>, sat |-> <<35, 55>>, attrs |-> <<>>],
    [name |-> "1950s-atomic", hues |-> <<180, 330, 45>>, sat |-> <<55, 75>>, attrs |-> <<>>],
    [name |-> "1960s-psychedelic", hues |-> <<30, 180, 300, 60>>, sat |-> <<75, 95>>, attrs |-> <<<<"syntax_keyword_attr", "bold">>, <<"syntax_comment_attr", "italic">>>>],
    [name |-> "1970s-earth-tones", hues |-> <<25, 90, 35>>, sat |-> <<45, 70>>, attrs |-> <<>>],
    [name |-> "1980s-neon", hues |-> <<300, 180, 330>>, sat |-> <<80, 95>>, attrs |-> <<<<"syntax_keyword_attr", "bold">>>>],
    [name |-> "1990s-grunge", hues |-> <<180, 270, 30>>, sat |-> <<40, 65>>, attrs |-> <<>>],
    [name |-> "2000s-web", hues |-> <<200, 30, 280>>, sat |-> <<50, 75>>, attrs |-> <<>>],
    [name |-> "2010s-flat", hues |-> <<190, 340, 45>>, sat |-> <<55, 75>>, attrs |-> <<>>],
    [name |-> "2020s-modern", hues |-> <<260, 180, 330>>, sat |-> <<50, 75>>, attrs |-> <<<<"syntax_comment_attr", "italic">>>>],
    [name |-> "cyberpunk-neon", hues |-> <<300, 180, 60>>, sat |-> <<85, 100>>, attrs |-> <<<<"syntax_keyword_attr", "bold">>, <<"syntax_comment_attr", "italic">>>>],
    [name |-> "cyberpunk-matrix", hues |-> <<120, 150, 90>>, sat |-> <<80, 95>>, attrs |-> <<<<"syntax_function_attr", "bold">>>>],
    [name |-> "cyberpunk-blade-runner", hues |-> <<20, 200, 280>>, sat |-> <<65, 85>>, attrs |-> <<<<"syntax_keyword_attr", "bold">>>>],
    [name |-> "cyberpunk-akira", hues |-> <<0, 220, 45>>, sat |-> <<75, 95>>, attrs |-> <<<<"syntax_keyword_attr", "bold">>>>],
    [name |-> "cyberpunk-ghost", hues |-> <<200, 280, 340>>, sat |-> <<60, 80>>, attrs |-> <<<<"syntax_comment_attr", "italic">>>>],
    [name |-> "synthwave-retro", hues |-> <<280, 320, 200>>, sat |-> <<80, 95>>, attrs |-> <<<<"syntax_keyword_attr", "bold">>, <<"syntax_string_attr", "italic">>>>],
    [name |-> "synthwave-sunset", hues |-> <<320, 280, 30>>, sat |-> <<85, 100>>, attrs |-> <<<<"syntax_function_attr", "bold">>>>],
    [name |-> "synthwave-outrun", hues |-> <<300, 180, 340>>, sat |-> <<85, 100>>, attrs |-> <<<<"syntax_keyword_attr", "bold">>>>],
    [name |-> "synthwave-miami", hues |-> <<180, 320, 45>>, sat |-> <<80, 95>>, attrs |-> <<>>],
    [name |-> "synthwave-arcade", hues |-> <<270, 180, 60>>, sat |-> <<85, 100>>, attrs |-> <<<<"syntax_keyword_attr", "bold">>>>],
    [name |-> "darkwave-gothic", hues |-> <<270, 300, 0>>, sat |-> <<25, 50>>, attrs |-> <<<<"syntax_comment_attr", "italic">>>>],
    [name |-> "darkwave-industrial", hues |-> <<0, 30, 200>>, sat |-> <<20, 45>>, attrs |-> <<<<"syntax_keyword_attr", "bold">>>>],
    [name |-> "darkwave-ethereal", hues |-> <<240, 280, 200>>, sat |-> <<25, 50>>, attrs |-> <<<<"syntax_comment_attr", "italic">>, <<"syntax_string_attr", "italic">>>>],
    [name |-> "darkwave-coldwave", hues |-> <<200, 240, 270>>, sat |-> <<20, 45>>, attrs |-> <<>>],
    [name |-> "darkwave-deathrock", hues |-> <<280, 0, 300>>, sat |-> <<30, 55>>, attrs |-> <<<<"syntax_keyword_attr", "bold">>>>],
    [name |-> "high-contrast", hues |-> <<60, 180, 300, 0>>, sat |-> <<90, 100>>, attrs |-> <<<<"syntax_keyword_attr", "bold">>, <<"syntax_function_attr", "bold">>>>],
    [name |-> "high-contrast-warm", hues |-> <<0, 30, 60>>, sat |-> <<90, 100>>, attrs |-> <<<<"syntax_keyword_attr", "bold">>>>],
    [name |-> "high-contrast-cool", hues |-> <<180, 220, 260>>, sat |-> <<90, 100>>, attrs |-> <<<<"syntax_keyword_attr", "bold">>>>],
    [name |-> "high-contrast-mono", hues |-> <<0>>, sat |-> <<0, 8>>, attrs |-> <<<<"syntax_keyword_attr", "bold">>, <<"syntax_comment_attr", "italic">>>>]
>>

(***************************************************************************)
(* The 89 roles of generate(), in the evaluation order of its dict         *)
(* literal: key, derivation method, hue seed (1..4 for h1..h4, 0 for the   *)
(* alert colours, which take none) and variation / intensity argument.     *)
(***************************************************************************)
ROLES == <<
    [key |-> "background", fn |-> "_bg_color", h |-> 1, v |-> 0],
    [key |-> "foreground", fn |-> "_fg_color", h |-> 1, v |-> 0],
    [key |-> "selection", fn |-> "_accent_color", h |-> 2, v |-> 0],
    [key |-> "search_match", fn |-> "_accent_color", h |-> 3, v |-> 1],
    [key |-> "search_current", fn |-> "_accent_color", h |-> 4, v |-> 2],
    [key |-> "cursor_line", fn |-> "_subtle_bg", h |-> 1, v |-> 1],
    [key |-> "color_column", fn |-> "_subtle_bg", h |-> 1, v |-> 2],
    [key |-> "color_column_line", fn |-> "_fg_color", h |-> 2, v |-> 1],
    [key |-> "trailing_ws", fn |-> "_error_color", h |-> 0, v |-> 0],
    [key |-> "line_number_fg", fn |-> "_fg_color", h |-> 1, v |-> 2],
    [key |-> "line_number_bg", fn |-> "_bg_color", h |-> 1, v |-> 1],
    [key |-> "line_number_active_fg", fn |-> "_accent_color", h |-> 2, v |-> 3],
    [key |-> "line_number_active_bg", fn |-> "_subtle_bg", h |-> 1, v |-> 3],
    [key |-> "gutter_fg", fn |-> "_fg_color", h |-> 1, v |-> 3],
    [key |-> "gutter_bg", fn |-> "_bg_color", h |-> 1, v |-> 2],
    [key |-> "gutter_active_fg", fn |-> "_accent_color", h |-> 2, v |-> 4],
    [key |-> "gutter_active_bg", fn |-> "_subtle_bg", h |-> 1, v |-> 4],
    [key |-> "status_fg", fn |-> "_fg_color", h |-> 2, v |-> 0],
    [key |-> "status_bg", fn |-> "_subtle_bg", h |-> 2, v |-> 0],
    [key |-> "status_filename_fg", fn |-> "_accent_color", h |-> 2, v |-> 5],
    [key |-> "status_filename_bg", fn |-> "_subtle_bg", h |-> 2, v |-> 1],
    [key |-> "status_modified_fg", fn |-> "_warning_color", h |-> 0, v |-> 0],
    [key |-> "status_modified_bg", fn |-> "_subtle_bg", h |-> 2, v |-> 2],
    [key |-> "status_position_fg", fn |-> "_fg_color", h |-> 2, v |-> 4],
    [key |-> "status_position_bg", fn |-> "_subtle_bg", h |-> 2, v |-> 3],
    [key |-> "message_fg", fn |-> "_fg_color", h |-> 1, v |-> 4],
    [key |-> "message_bg", fn |-> "_bg_color", h |-> 1, v |-> 3],
    [key |-> "prompt_label_fg", fn |-> "_accent_color", h |-> 3, v |-> 0],
    [key |-> "prompt_label_bg", fn |-> "_bg_color", h |-> 1, v |-> 4],
    [key |-> "prompt_input_fg", fn |-> "_fg_color", h |-> 1, v |-> 5],
    [key |-> "prompt_input_bg", fn |-> "_subtle_bg", h |-> 1, v |-> 5],
    [key |-> "prompt_bracket_fg", fn |-> "_accent_color", h |-> 4, v |-> 0],
    [key |-> "prompt_bracket_bg", fn |-> "_bg_color", h |-> 1, v |-> 5],
    [key |-> "prompt_warning_fg", fn |-> "_warning_color", h |-> 0, v |-> 1],
    [key |-> "prompt_warning_bg", fn |-> "_bg_color", h |-> 1, v |-> 6],
    [key |-> "search_options_fg", fn |-> "_success_color", h |-> 0, v |-> 0],
    [key |-> "search_options_bg", fn |-> "_bg_color", h |-> 1, v |-> 7],
    [key |-> "search_nomatch_fg", fn |-> "_error_color", h |-> 0, v |-> 1],
    [key |-> "search_nomatch_bg", fn |-> "_bg_color", h |-> 1, v |-> 8],
    [key |-> "search_error_fg", fn |-> "_error_color", h |-> 0, v |-> 2],
    [key |-> "search_error_bg", fn |-> "_bg_color", h |-> 1, v |-> 9],
    [key |-> "whitespace_fg", fn |-> "_fg_color", h |-> 1, v |-> 6],
    [key |-> "whitespace_bg", fn |-> "_bg_color", h |-> 1, v |-> 10],
    [key |-> "whitespace_tab_fg", fn |-> "_fg_color", h |-> 1, v |-> 7],
    [key |-> "whitespace_tab_bg", fn |-> "_bg_color", h |-> 1, v |-> 11],
    [key |-> "whitespace_space_fg", fn |-> "_fg_color", h |-> 1, v |-> 8],
    [key |-> "whitespace_space_bg", fn |-> "_bg_color", h |-> 1, v |-> 12],
    [key |-> "wrap_indicator_fg", fn |-> "_fg_color", h |-> 1, v |-> 9],
    [key |-> "wrap_indicator_bg", fn |-> "_bg_color", h |-> 1, v |-> 13],
    [key |-> "empty_line_fg", fn |-> "_fg_color", h |-> 1, v |-> 10],
    [key |-> "empty_line_bg", fn |-> "_bg_color", h |-> 1, v |-> 14],
    [key |-> "welcome_fg", fn |-> "_accent_color", h |-> 2, v |-> 6],
    [key |-> "welcome_bg", fn |-> "_bg_color", h |-> 1, v |-> 15],
    [key |-> "bracket_match_fg", fn |-> "_accent_color", h |-> 4, v |-> 1],
    [key |-> "bracket_match_bg", fn |-> "_subtle_bg", h |-> 4, v |-> 0],
    [key |-> "multicursor_fg", fn |-> "_fg_color", h |-> 3, v |-> 0],
    [key |-> "multicursor_bg", fn |-> "_accent_color", h |-> 3, v |-> 2],
    [key |-> "dialog_fg", fn |-> "_fg_color", h |-> 1, v |-> 11],
    [key |-> "dialog_bg", fn |-> "_subtle_bg", h |-> 1, v |-> 6],
    [key |-> "dialog_header_fg", fn |-> "_accent_color", h |-> 2, v |-> 7],
    [key |-> "dialog_header_bg", fn |-> "_subtle_bg", h |-> 2, v |-> 4],
    [key |-> "dialog_footer_fg", fn |-> "_fg_color", h |-> 1, v |-> 12],
    [key |-> "dialog_footer_bg", fn |-> "_subtle_bg", h |-> 1, v |-> 7],
    [key |-> "dialog_highlight_fg", fn |-> "_fg_color", h |-> 2, v |-> 5],
    [key |-> "dialog_highlight_bg", fn |-> "_accent_color", h |-> 2, v |-> 8],
    [key |-> "dialog_directory_fg", fn |-> "_accent_color", h |-> 3, v |-> 3],
    [key |-> "dialog_directory_bg", fn |-> "_subtle_bg", h |-> 1, v |-> 8],
    [key |-> "syntax_normal_fg", fn |-> "_fg_color", h |-> 1, v |-> 13],
    [key |-> "syntax_normal_bg", fn |-> "_bg_color", h |-> 1, v |-> 16],
    [key |-> "syntax_keyword_fg", fn |-> "_accent_color", h |-> 2, v |-> 9],
    [key |-> "syntax_keyword_bg", fn |-> "_bg_color", h |-> 2, v |-> 0],
    [key |-> "syntax_type_fg", fn |-> "_accent_color", h |-> 3, v |-> 4],
    [key |-> "syntax_type_bg", fn |-> "_bg_color", h |-> 3, v |-> 0],
    [key |-> "syntax_string_fg", fn |-> "_success_color", h |-> 0, v |-> 1],
    [key |-> "syntax_string_bg", fn |-> "_bg_color", h |-> 1, v |-> 17],
    [key |-> "syntax_number_fg", fn |-> "_accent_color", h |-> 4, v |-> 2],
    [key |-> "syntax_number_bg", fn |-> "_bg_color", h |-> 4, v |-> 0],
    [key |-> "syntax_comment_fg", fn |-> "_fg_color", h |-> 1, v |-> 14],
    [key |-> "syntax_comment_bg", fn |-> "_bg_color", h |-> 1, v |-> 18],
    [key |-> "syntax_preprocessor_fg", fn |-> "_accent_color", h |-> 3, v |-> 5],
    [key |-> "syntax_preprocessor_bg", fn |-> "_bg_color", h |-> 3, v |-> 1],
    [key |-> "syntax_function_fg", fn |-> "_accent_color", h |-> 2, v |-> 10],
    [key |-> "syntax_function_bg", fn |-> "_bg_color", h |-> 2, v |-> 1],
    [key |-> "syntax_operator_fg", fn |-> "_fg_color", h |-> 1, v |-> 15],
    [key |-> "syntax_operator_bg", fn |-> "_bg_color", h |-> 1, v |-> 19],
    [key |-> "syntax_bracket_fg", fn |-> "_accent_color", h |-> 4, v |-> 3],
    [key |-> "syntax_bracket_bg", fn |-> "_bg_color", h |-> 4, v |-> 1],
    [key |-> "syntax_escape_fg", fn |-> "_warning_color", h |-> 0, v |-> 2],
    [key |-> "syntax_escape_bg", fn |-> "_bg_color", h |-> 1, v |-> 20]
>>

(***************************************************************************)
(* The template of write_theme: its comment banners and, under each, the   *)
(* keys of the key={theme_dict[key]} lines, in order.                      *)
(***************************************************************************)
TEMPLATE == <<
    [title |-> "Core UI",
        keys  |-> <<"background", "foreground", "selection", "search_match",
                   "search_current", "cursor_line", "color_column",
                   "color_column_line", "trailing_ws">>],
    [title |-> "Line Numbers",
        keys  |-> <<"line_number_fg", "line_number_bg",
                   "line_number_active_fg", "line_number_active_bg">>],
    [title |-> "Gutter",
        keys  |-> <<"gutter_fg", "gutter_bg", "gutter_active_fg",
                   "gutter_active_bg">>],
    [title |-> "Status Bar",
        keys  |-> <<"status_fg", "status_bg", "status_filename_fg",
                   "status_filename_bg", "status_modified_fg",
                   "status_modified_bg", "status_position_fg",
                   "status_position_bg">>],
    [title |-> "Message Bar",
        keys  |-> <<"message_fg", "message_bg">>],
    [title |-> "Prompt",
        keys  |-> <<"prompt_label_fg", "prompt_label_bg", "prompt_input_fg",
                   "prompt_input_bg", "prompt_bracket_fg",
                   "prompt_bracket_bg", "prompt_warning_fg",
                   "prompt_warning_bg">>],
    [title |-> "Search Feedback",
        keys  |-> <<"search_options_fg", "search_options_bg",
                   "search_nomatch_fg", "search_nomatch_bg",
                   "search_error_fg", "search_error_bg">>],
    [title |-> "Whitespace",
        keys  |-> <<"whitespace_fg", "whitespace_bg", "whitespace_tab_fg",
                   "whitespace_tab_bg", "whitespace_space_fg",
                   "whitespace_space_bg">>],
    [title |-> "Wrap Indicator",
        keys  |-> <<"wrap_indicator_fg", "wrap_indicator_bg">>],
    [title |-> "Empty Lines",
        keys  |-> <<"empty_line_fg", "empty_line_bg">>],
    [title |-> "Welcome Screen",
        keys  |-> <<"welcome_fg", "welcome_bg">>],
    [title |-> "Bracket Matching",
        keys  |-> <<"bracket_match_fg", "bracket_match_bg">>],
    [title |-> "Multi-cursor",
        keys  |-> <<"multicursor_fg", "multicursor_bg">>],
    [title |-> "Dialog",
        keys  |-> <<"dialog_fg", "dialog_bg", "dialog_header_fg",
                   "dialog_header_bg", "dialog_footer_fg",
                   "dialog_footer_bg", "dialog_highlight_fg",
                   "dialog_highlight_bg", "dialog_directory_fg",
                   "dialog_directory_bg">>],
    [title |-> "Syntax Highlighting",
        keys  |-> <<"syntax_normal_fg", "syntax_normal_bg",
                   "syntax_keyword_fg", "syntax_keyword_bg",
                   "syntax_type_fg", "syntax_type_bg", "syntax_string_fg",
                   "syntax_string_bg", "syntax_number_fg",
                   "syntax_number_bg", "syntax_comment_fg",
                   "syntax_comment_bg", "syntax_preprocessor_fg",
                   "syntax_preprocessor_bg", "syntax_function_fg",
                   "syntax_function_bg", "syntax_operator_fg",
                   "syntax_operator_bg", "syntax_bracket_fg",
                   "syntax_bracket_bg", "syntax_escape_fg",
                   "syntax_escape_bg">>]
>>

(***************************************************************************)
(* ThemeGenerator.  An instance is a record of its fields.                  *)
(***************************************************************************)
MaxAttempts == 100

\* ThemeGenerator.__init__
ThemeGenerator(name, primary_hues, is_dark, saturation_range) ==
    [name          |-> name,
     is_dark       |-> is_dark,
     primary_hues  |-> primary_hues,
     sat_min       |-> saturation_range[1],
     sat_max       |-> saturation_range[2],
     used_colors   |-> {},
     color_counter |-> 0]

\* _get_unique_color up to its loop: the arguments normalised, the first
\* candidate colour, no attempt made
FirstCandidate(hue, sat, light) ==
    LET h == hue % 360
        s == Clamp(0, 100, sat)
        l == Clamp(5, 95, light)
    IN  [hue |-> h, sat |-> s, light |-> l, color |-> hsl_to_hex(h, s, l),
         attempts |-> 0]

\* the loop's body with the hue advanced by 72 degrees instead of 7
PerturbHue72(c) ==
    LET light == 5 + ((c.light + 3) % 90)
        sat   == 10 + ((c.sat + 5) % 80)
        hue   == (c.hue + 72) % 360
    IN  [hue |-> hue, sat |-> sat, light |-> light,
         color |-> hsl_to_hex(hue, sat, light), attempts |-> c.attempts + 1]

\* one iteration of the loop's body on candidate c
Perturb(c) ==
    LET light == 5 + ((c.light + 3) % 90)
        sat   == 10 + ((c.sat + 5) % 80)
        hue   == (c.hue + 7) % 360
    IN  [hue |-> hue, sat |-> sat, light |-> light,
         color |-> hsl_to_hex(hue, sat, light), attempts |-> c.attempts + 1]

\* the loop's condition with the bound tested as attempts <= 100
CollidingOneMore(used, c) == c.color \in used /\ c.attempts <= MaxAttempts

\* the loop's condition never met: the first candidate is always kept
CollidingNever(used, c) == c.color \in used /\ c.attempts < 0

\* the loop's condition on candidate c
Colliding(used, c) == c.color \in used /\ c.attempts < MaxAttempts

\* The <<hue, sat, light>> each derivation method passes to _get_unique_color
bg_color(self, hue, variation) ==
    <<hue,
      self.sat_min + ((variation * 4) % 15),
      IF self.is_dark THEN 8 + ((variation * 2) % 10) ELSE 92 - ((variation * 2) % 8)>>

fg_color(self, hue, variation) ==
    <<hue,
      self.sat_min + 15 + ((variation * 5) % 25),
      IF self.is_dark THEN 70 + ((variation * 3) % 25) ELSE 25 + ((variation * 3) % 20)>>

accent_color(self, hue, intensity) ==
    <<hue,
      self.sat_max - ((intensity * 3) % 15),
      IF self.is_dark THEN 55 + ((intensity * 4) % 20) ELSE 45 + ((intensity * 4) % 15)>>

subtle_bg(self, hue, variation) ==
    <<hue,
      self.sat_min + ((variation * 3) % 12),
      IF self.is_dark THEN 14 + ((variation * 2) % 8) ELSE 86 - ((variation * 2) % 8)>>

warning_color(self, variation) ==
    <<35 + ((variation * 8) % 25),
      75,
      IF self.is_dark THEN 60 + ((variation * 4) % 15) ELSE 45 + ((variation * 4) % 12)>>

error_color(self, variation) ==
    <<5 + ((variation * 6) % 15),
      78,
      IF self.is_dark THEN 55 + ((variation * 4) % 18) ELSE 42 + ((variation * 4) % 12)>>

success_color(self, variation) ==
    <<125 + ((variation * 8) % 25),
      60,
      IF self.is_dark THEN 50 + ((variation * 4) % 18) ELSE 38 + ((variation * 4) % 12)>>

Methods == {"_bg_color", "_fg_color", "_accent_color", "_subtle_bg",
            "_warning_color", "_error_color", "_success_color"}

\* a call self.<fn>(hue, v) (the alert methods take no hue): the first
\* candidate of the call of _get_unique_color it makes
Derive(self, fn, hue, v) ==
    LET a == CASE fn = "_bg_color"      -> bg_color(self, hue, v)
               [] fn = "_fg_color"      -> fg_color(self, hue, v)
               [] fn = "_accent_color"  -> accent_color(self, hue, v)
               [] fn = "_subtle_bg"     -> subtle_bg(self, hue, v)
               [] fn = "_warning_color" -> warning_color(self, v)
               [] fn = "_error_color"   -> error_color(self, v)
               [] fn = "_success_color" -> success_color(self, v)
    IN  FirstCandidate(a[1], a[2], a[3])

\* h1..h4 of generate()
Seeds(self) ==
    LET p  == self.primary_hues
        h1 == p[1]
    IN  <<h1,
          IF Len(p) > 1 THEN p[2] ELSE (h1 + 120) % 360,
          IF Len(p) > 2 THEN p[3] ELSE (h1 + 240) % 360,
          IF Len(p) > 3 THEN p[4] ELSE (h1 + 60) % 360>>

\* the call generate() makes for role number i
RoleCall(self, i) ==
    LET r == ROLES[i]
    IN  Derive(self, r.fn, IF r.h = 0 THEN 0 ELSE Seeds(self)[r.h], r.v)

(***************************************************************************)
(* String helpers for create_theme_pair's display names and glob's pattern.*)
(***************************************************************************)
LowerCase == "abcdefghijklmnopqrstuvwxyz"
UpperCase == "ABCDEFGHIJKLMNOPQRSTUVWXYZ"

CharAt(s, i) == SubSeq(s, i, i)

IndexIn(alphabet, c) ==
    LET hits == {i \in 1..Len(alphabet) : CharAt(alphabet, i) = c}
    IN  IF hits = {} THEN 0 ELSE CHOOSE i \in hits : TRUE

\* str.replace(old, new) for one-character old and new
RECURSIVE Replace(_, _, _)
Replace(s, old, new) ==
    IF s = "" THEN ""
    ELSE (IF Head(s) = old THEN new ELSE Head(s)) \o Replace(Tail(s), old, new)

\* str.title(): a cased character is upper-cased after an uncased one and
\* lower-cased after a cased one
RECURSIVE TitleFrom(_, _)
TitleFrom(s, prevCased) ==
    IF s = "" THEN ""
    ELSE LET c  == Head(s)
             lo == IndexIn(LowerCase, c)
             up == IndexIn(UpperCase, c)
             k  == IF lo > 0 THEN lo ELSE up
         IN  IF k = 0 THEN c \o TitleFrom(Tail(s), FALSE)
             ELSE (IF prevCased THEN CharAt(LowerCase, k) ELSE CharAt(UpperCase, k))
                    \o TitleFrom(Tail(s), TRUE)

Title(s) == TitleFrom(s, FALSE)

\* glob.glob("themes/*.ini") matches the entry: it ends in .ini and is not hidden
IniMatch(name) ==
    /\ Len(name) >= 4
    /\ SubSeq(name, Len(name) - 3, Len(name)) = ".ini"
    /\ CharAt(name, 1) # "."

(***************************************************************************)
(* write_theme: the text written.                                          *)
(***************************************************************************)
\* the template's lines written as key: value
RECURSIVE KeyLinesColon(_, _)
KeyLinesColon(keys, theme_dict) ==
    IF keys = <<>> THEN ""
    ELSE Head(keys) \o ": " \o theme_dict[Head(keys)] \o "\n"
           \o KeyLinesColon(Tail(keys), theme_dict)

RECURSIVE KeyLines(_, _)
KeyLines(keys, theme_dict) ==
    IF keys = <<>> THEN ""
    ELSE Head(keys) \o "=" \o theme_dict[Head(keys)] \o "\n"
           \o KeyLines(Tail(keys), theme_dict)

RECURSIVE Sections(_, _)
Sections(secs, theme_dict) ==
    IF secs = <<>> THEN ""
    ELSE "\n# " \o Head(secs).title \o "\n" \o KeyLines(Head(secs).keys, theme_dict)
           \o Sections(Tail(secs), theme_dict)

RECURSIVE AttrLines(_)
AttrLines(attrs) ==
    IF attrs = <<>> THEN ""
    ELSE Head(attrs)[1] \o "=" \o Head(attrs)[2] \o "\n" \o AttrLines(Tail(attrs))

Content(name, theme_dict, attrs) ==
    "# " \o name \o "\n"
      \o "# Auto-generated theme with unique colors for all hooks\n"
      \o "name=" \o name \o "\n"
      \o Sections(TEMPLATE, theme_dict)
      \o (IF attrs # <<>> THEN "\n# Text Attributes\n" \o AttrLines(attrs) ELSE "")

\* the directory themes/ after write_theme("themes/" + file, ...): the file is
\* created or truncated and holds the text
write_theme(d, file, name, theme_dict, attrs) ==
    (file :> [kind |-> "file", content |-> Content(name, theme_dict, attrs)]) @@ d

(***************************************************************************)
(* The state.                                                              *)
(*   pc          where control is                                          *)
(*   table       the theme table main() iterates                           *)
(*   ti          the index in table of the entry being processed           *)
(*   dir         the directory themes/: entry name -> [kind, content]      *)
(*   globbed     the paths glob returned that main() has still to remove   *)
(*   theme_count main()'s final os.listdir count                           *)
(*   gens        the live ThemeGenerator instances, by the name bound to   *)
(*               them                                                      *)
(*   cur         the generate() activation in progress: its instance, its  *)
(*               attrs argument, the next role and the dict built so far   *)
(*   call        the _get_unique_color activation in progress: its        *)
(*               instance, the derivation method that made it, where it   *)
(*               returns and its current candidate                        *)
(*   out         what generate() returned, by instance                     *)
(*   left        derivation calls the call harness may still make          *)
(* and, recording what happened (read by no action):                       *)
(*   last        the last call observed                                    *)
(*   returned    the colours each instance has returned                    *)
(*   written     the files written by write_theme, in order                *)
(*   dir0        the directory themes/ as the run found it                 *)
(***************************************************************************)
VARIABLES pc, table, ti, dir, globbed, theme_count, gens, cur, call, out,
          left, last, returned, written, dir0

vars == <<pc, table, ti, dir, globbed, theme_count, gens, cur, call, out,
          left, last, returned, written, dir0>>

NoCall == [kind |-> "none"]
NoDir == <<>>

\* what a call of a derivation method did, seen when its call of
\* _get_unique_color returns candidate c from instance self
Observe(g, self, fn, c) ==
    [kind |-> "derive", gen |-> g, name |-> self.name, is_dark |-> self.is_dark,
     fn |-> fn, color |-> c.color, hue |-> c.hue, sat |-> c.sat, light |-> c.light,
     attempts |-> c.attempts, dup |-> c.color \in self.used_colors]

(***************************************************************************)
(* _get_unique_color: its loop, one iteration per step, and its return.    *)
(***************************************************************************)
\* the values of the locals hue, sat, light that candidate c was converted from
Triple(c) == <<c.hue, c.sat, c.light>>

\* the activation of _get_unique_color that self.<fn> enters on instance g;
\* tried lists the triples of the candidates computed so far in this call
EnterUnique(g, fn, c, ret) ==
    [kind |-> "unique", gen |-> g, fn |-> fn, c |-> c, ret |-> ret,
     tried |-> <<Triple(c)>>]

\* self.used_colors of every instance shared, as a class attribute would be
UsedColorsShared(g) == UNION {gens[x].used_colors : x \in DOMAIN gens}

\* self.used_colors of instance g
UsedColors(g) == gens[g].used_colors

UniqueLoop ==
    /\ pc = "unique"
    /\ Colliding(UsedColors(call.gen), call.c)
    /\ gens' = [gens EXCEPT ![call.gen].color_counter = @ + 1]
    /\ \E c \in {Perturb(call.c)} :
          call' = [call EXCEPT !.c = c, !.tried = Append(@, Triple(c))]
    /\ UNCHANGED <<pc, table, ti, dir, globbed, theme_count, cur, out, left, last,
                   returned, written, dir0>>

\* the return with the add inside the loop: a colour found free at once is
\* returned without being recorded
UniqueReturnAddInLoop ==
    /\ pc = "unique"
    /\ ~Colliding(UsedColors(call.gen), call.c)
    /\ gens' = [gens EXCEPT ![call.gen].used_colors =
                                IF call.c.attempts > 0 THEN @ \cup {call.c.color} ELSE @]
    /\ last' = Observe(call.gen, gens[call.gen], call.fn, call.c)
    /\ returned' = [returned EXCEPT ![call.gen] = @ \cup {call.c.color}]
    /\ cur' = IF call.ret = "generate"
              THEN [cur EXCEPT !.i = @ + 1,
                               !.theme = @ @@ (ROLES[cur.i].key :> call.c.color)]
              ELSE cur
    /\ pc' = call.ret
    /\ call' = NoCall
    /\ UNCHANGED <<table, ti, dir, globbed, theme_count, out, left, written, dir0>>

\* the loop is left: the colour is recorded and returned; generate() binds
\* it to the role's key
UniqueReturn ==
    /\ pc = "unique"
    /\ ~Colliding(UsedColors(call.gen), call.c)
    /\ gens' = [gens EXCEPT ![call.gen].used_colors = @ \cup {call.c.color}]
    /\ last' = Observe(call.gen, gens[call.gen], call.fn, call.c)
    /\ returned' = [returned EXCEPT ![call.gen] = @ \cup {call.c.color}]
    /\ cur' = IF call.ret = "generate"
              THEN [cur EXCEPT !.i = @ + 1,
                               !.theme = @ @@ (ROLES[cur.i].key :> call.c.color)]
              ELSE cur
    /\ pc' = call.ret
    /\ call' = NoCall
    /\ UNCHANGED <<table, ti, dir, globbed, theme_count, out, left, written, dir0>>

(***************************************************************************)
(* generate(), one role per call, and its return.                          *)
(***************************************************************************)
\* generate(attrs) is called on instance g; ret is where control returns
StartGenerate(g, attrs, ret) ==
    [kind |-> "generate", gen |-> g, attrs |-> attrs, i |-> 1, theme |-> <<>>,
     ret |-> ret]

\* the next entry of the dict literal: its derivation method is called
GenerateStep ==
    /\ pc = "generate"
    /\ cur.i <= Len(ROLES)
    /\ call' = EnterUnique(cur.gen, ROLES[cur.i].fn, RoleCall(gens[cur.gen], cur.i),
                           "generate")
    /\ pc' = "unique"
    /\ UNCHANGED <<table, ti, dir, globbed, theme_count, gens, cur, out, left, last,
                   returned, written, dir0>>

GenerateReturn ==
    /\ pc = "generate"
    /\ cur.i > Len(ROLES)
    /\ out' = (cur.gen :> <<cur.theme, cur.attrs>>) @@ out
    /\ pc' = cur.ret
    /\ UNCHANGED <<table, ti, dir, globbed, theme_count, gens, cur, call, left,
                   last, returned, written, dir0>>

(***************************************************************************)
(* main() and create_theme_pair.                                           *)
(***************************************************************************)
Glob ==
    /\ pc = "glob"
    /\ globbed' = {n \in DOMAIN dir : IniMatch(n)}
    /\ pc' = "remove"
    /\ UNCHANGED <<table, ti, dir, theme_count, gens, cur, call, out, left,
                   last, returned, written, dir0>>

\* the loop over the glob list with its os.remove(f) left out
RemoveKeeps ==
    /\ pc = "remove"
    /\ \E f \in globbed :
          /\ globbed' = globbed \ {f}
          /\ pc' = "remove"
    /\ UNCHANGED <<table, ti, dir, theme_count, gens, cur, call, out, left,
                   last, returned, written, dir0>>

\* os.remove(f) for the next path of the glob list (listing order is the
\* file system's); removing a directory raises and ends the run
Remove ==
    /\ pc = "remove"
    /\ \E f \in globbed :
          IF dir[f].kind = "dir"
          THEN /\ pc' = "error"
               /\ UNCHANGED <<call, dir, globbed>>
          ELSE /\ dir' = [n \in DOMAIN dir \ {f} |-> dir[n]]
               /\ globbed' = globbed \ {f}
               /\ pc' = "remove"
    /\ UNCHANGED <<table, ti, theme_count, gens, cur, call, out, left,
                   last, returned, written, dir0>>

RemoveDone ==
    /\ pc = "remove"
    /\ globbed = {}
    /\ pc' = "loop"
    /\ UNCHANGED <<table, ti, dir, globbed, theme_count, gens, cur, call, out, left,
                   last, returned, written, dir0>>

\* create_theme_pair is entered for the next table entry: dark_gen is built
\* and its generate(attrs) called
BeginDark ==
    /\ pc = "loop"
    /\ ti <= Len(table)
    /\ LET e == table[ti]
       IN  /\ gens' = ("dark_gen" :> ThemeGenerator(e.name \o " Dark", e.hues, TRUE, e.sat))
           /\ cur' = StartGenerate("dark_gen", e.attrs, "write")
    /\ returned' = ("dark_gen" :> {})
    /\ out' = <<>>
    /\ pc' = "generate"
    /\ UNCHANGED <<call, table, ti, dir, globbed, theme_count, left, last, written, dir0>>

\* light_gen is built and its generate(attrs) called
BeginLight ==
    /\ pc = "light"
    /\ LET e == table[ti]
       IN  /\ gens' = ("light_gen" :> ThemeGenerator(e.name \o " Light", e.hues, FALSE, e.sat)) @@ gens
           /\ cur' = StartGenerate("light_gen", e.attrs, "write")
    /\ returned' = ("light_gen" :> {}) @@ returned
    /\ pc' = "generate"
    /\ UNCHANGED <<call, table, ti, dir, globbed, theme_count, out, left, last, written, dir0>>

\* the file names with the suffixes of the two variants exchanged
FileNameSwapped(base_name, g) ==
    base_name \o (IF g = "dark_gen" THEN "-light.ini" ELSE "-dark.ini")

\* the file name and display name create_theme_pair passes to write_theme
FileName(base_name, g) ==
    base_name \o (IF g = "dark_gen" THEN "-dark.ini" ELSE "-light.ini")

DisplayName(base_name, g) ==
    Title(Replace(base_name, "-", " ")) \o (IF g = "dark_gen" THEN " Dark" ELSE " Light")

\* write_theme for the mapping just generated; open() on a directory raises
WriteTheme ==
    /\ pc = "write"
    /\ LET e == table[ti]
           f == FileName(e.name, cur.gen)
       IN  IF f \in DOMAIN dir /\ dir[f].kind = "dir"
           THEN /\ pc' = "error"
                /\ UNCHANGED <<call, dir, written, ti, gens, returned>>
           ELSE /\ dir' = write_theme(dir, f, DisplayName(e.name, cur.gen),
                                      out[cur.gen][1], e.attrs)
                /\ written' = Append(written, f)
                /\ IF cur.gen = "dark_gen"
                   THEN /\ pc' = "light"
                        /\ UNCHANGED <<call, ti, gens, returned>>
                   ELSE /\ pc' = "loop"
                        /\ ti' = ti + 1
                        /\ gens' = <<>>
                        /\ returned' = <<>>
    /\ UNCHANGED <<table, globbed, theme_count, cur, call, out, left, last, dir0>>

\* after the loop: theme_count = len(os.listdir("themes"))
Count ==
    /\ pc = "loop"
    /\ ti > Len(table)
    /\ theme_count' = Cardinality(DOMAIN dir)
    /\ pc' = "done"
    /\ UNCHANGED <<table, ti, dir, globbed, gens, cur, call, out, left,
                   last, returned, written, dir0>>

NextMain ==
    \/ Glob
    \/ Remove
    \/ RemoveDone
    \/ BeginDark
    \/ GenerateStep
    \/ UniqueLoop
    \/ UniqueReturn
    \/ GenerateReturn
    \/ WriteTheme
    \/ BeginLight
    \/ Count

File(text) == [kind |-> "file", content |-> text]

InitMain(t, d) ==
    /\ pc = "glob"
    /\ table = t
    /\ ti = 1
    /\ dir = d
    /\ globbed = {}
    /\ theme_count = 0
    /\ gens = <<>>
    /\ cur = NoCall
    /\ call = NoCall
    /\ out = <<>>
    /\ left = 0
    /\ last = NoCall
    /\ returned = <<>>
    /\ written = <<>>
    /\ dir0 = d

\* main() over the whole table, in a directory holding one stale theme file
InitShipped == InitMain(THEMES, "old-theme.ini" :> File("name=Old\n"))

SpecShipped == InitShipped /\ [][NextMain]_vars

\* main() over the first MainThemes table entries, in a directory holding
\* any of these entries: stale theme files, a file and a hidden file that
\* the glob pattern does not match, and a directory that it does
MainThemes == 2

PreExisting ==
    [n \in {"old-theme.ini", "protanopia-dark.ini", "notes.txt", ".hidden.ini",
            "backup.ini"} |->
        IF n = "backup.ini" THEN [kind |-> "dir", content |-> ""]
        ELSE File("name=Stale\n")]

Init ==
    \E S \in SUBSET DOMAIN PreExisting :
        InitMain(SubSeq(THEMES, 1, MainThemes), [n \in S |-> PreExisting[n]])

Next == NextMain

Spec == Init /\ [][Next]_vars

(***************************************************************************)
(* A call harness: derivation calls on a dark and a light instance built   *)
(* as create_theme_pair builds them.  Either MaxCalls calls are made, each *)
(* of any method on either instance, or one call is made MaxRepeats times  *)
(* over: every repetition collides with all the colours returned before,   *)
(* so that the attempts grow until a call exhausts them.                   *)
(***************************************************************************)
MaxCalls == 2
MaxRepeats == 102

CallTheme == THEMES[1]
CallHues == {CallTheme.hues[1]}
CallVariations == {0, 7}
RepeatedCall == <<"dark_gen", "_bg_color", CallTheme.hues[1], 0>>

InitCalls ==
    /\ pc = "calls"
    /\ table = <<CallTheme>>
    /\ ti = 1
    /\ dir = NoDir
    /\ dir0 = NoDir
    /\ globbed = {}
    /\ theme_count = 0
    /\ call = NoCall
    /\ out = <<>>
    /\ last = NoCall
    /\ written = <<>>
    /\ gens = ("dark_gen" :> ThemeGenerator(CallTheme.name \o " Dark", CallTheme.hues,
                                            TRUE, CallTheme.sat))
                @@ ("light_gen" :> ThemeGenerator(CallTheme.name \o " Light",
                                                  CallTheme.hues, FALSE, CallTheme.sat))
    /\ returned = ("dark_gen" :> {}) @@ ("light_gen" :> {})
    /\ \/ cur = NoCall /\ left = MaxCalls
       \/ cur = [kind |-> "repeat", args |-> RepeatedCall] /\ left = MaxRepeats

\* self.<fn>(hue, v) is called on instance g
Call(g, fn, hue, v) ==
    /\ pc = "calls"
    /\ left > 0
    /\ cur.kind = "repeat" => cur.args = <<g, fn, hue, v>>
    /\ call' = EnterUnique(g, fn, Derive(gens[g], fn, hue, v), "calls")
    /\ pc' = "unique"
    /\ left' = left - 1
    /\ UNCHANGED <<table, ti, dir, globbed, theme_count, gens, cur, out, last,
                   returned, written, dir0>>

NextCalls ==
    \/ \E g \in {"dark_gen", "light_gen"}, fn \in Methods, hue \in CallHues,
          v \in CallVariations : Call(g, fn, hue, v)
    \/ UniqueLoop
    \/ UniqueReturn

SpecCalls == InitCalls /\ [][NextCalls]_vars

(***************************************************************************)
(* Two fresh instances of one configuration, each running generate() once, *)
(* in either order.                                                        *)
(***************************************************************************)
TwinThemes == {4, 5, 27, 56}

InitTwin ==
    /\ pc = "twin"
    /\ ti = 1
    /\ dir = NoDir
    /\ dir0 = NoDir
    /\ globbed = {}
    /\ theme_count = 0
    /\ cur = NoCall
    /\ call = NoCall
    /\ out = <<>>
    /\ left = 0
    /\ last = NoCall
    /\ written = <<>>
    /\ \E i \in TwinThemes, is_dark \in BOOLEAN :
          /\ table = <<THEMES[i]>>
          /\ gens = [g \in {"first", "second"} |->
                        ThemeGenerator(THEMES[i].name, THEMES[i].hues, is_dark,
                                       THEMES[i].sat)]
    /\ returned = [g \in {"first", "second"} |-> {}]

\* generate(attrs) is called on an instance that has not run it yet
TwinGenerate(g) ==
    /\ pc = "twin"
    /\ g \notin DOMAIN out
    /\ cur' = StartGenerate(g, table[1].attrs, "twin")
    /\ pc' = "generate"
    /\ UNCHANGED <<call, table, ti, dir, globbed, theme_count, gens, out, left,
                   last, returned, written, dir0>>

NextTwin ==
    \/ \E g \in {"first", "second"} : TwinGenerate(g)
    \/ GenerateStep
    \/ UniqueLoop
    \/ UniqueReturn
    \/ GenerateReturn

SpecTwin == InitTwin /\ [][NextTwin]_vars

(***************************************************************************)
(* hsl_to_hex applied to arguments inside and outside their ranges.        *)
(***************************************************************************)
HexHues == {-40, 0, 1, 30, 60, 90, 120, 180, 240, 300, 359, 360, 400}
HexSats == {-5, 0, 1, 13, 50, 99, 100, 120}
HexLights == {-5, 0, 1, 50, 99, 100, 130}

InitHex ==
    /\ pc = "hex"
    /\ table = <<>>
    /\ ti = 1
    /\ dir = NoDir
    /\ dir0 = NoDir
    /\ globbed = {}
    /\ theme_count = 0
    /\ gens = <<>>
    /\ cur = NoCall
    /\ call = NoCall
    /\ out = <<>>
    /\ left = 0
    /\ last = NoCall
    /\ returned = <<>>
    /\ written = <<>>

\* hsl_to_hex(h, s, l) is called once
Convert(h, s, l) ==
    /\ pc = "hex"
    /\ last = NoCall
    /\ last' = [kind |-> "hsl_to_hex", h |-> h, s |-> s, l |-> l,
                color |-> hsl_to_hex(h, s, l)]
    /\ UNCHANGED <<pc, table, ti, dir, globbed, theme_count, gens, cur, call, out, left,
                   returned, written, dir0>>

NextHex == \E h \in HexHues, s \in HexSats, l \in HexLights : Convert(h, s, l)

SpecHex == InitHex /\ [][NextHex]_vars

(***************************************************************************)
(* write_theme called, as create_theme_pair calls it, with a complete      *)
(* mapping, an attribute map and a base name chosen from sets that hold    *)
(* the shipped shapes and the awkward ones: an attribute named like a      *)
(* role, an attribute value holding a line break, '=' in a name.           *)
(***************************************************************************)
RoleKeys == {ROLES[i].key : i \in 1..Len(ROLES)}

\* a six-digit lowercase hex colour for the number n
HexColor(n) ==
    "#" \o Format02x((n \div 65536) % 256) \o Format02x((n \div 256) % 256)
        \o Format02x(n % 256)

WriteMappings ==
    {[k \in RoleKeys |-> "#000000"],
     [k \in RoleKeys |-> "#ffffff"],
     [k \in RoleKeys |-> HexColor(65793 * (CHOOSE i \in 1..Len(ROLES) : ROLES[i].key = k))],
     [k \in RoleKeys |-> HexColor(16777215
                           - 4099 * (CHOOSE i \in 1..Len(ROLES) : ROLES[i].key = k))]}

WriteAttrs ==
    {<<>>,
     <<<<"syntax_keyword_attr", "bold">>>>,
     <<<<"syntax_comment_attr", "italic">>, <<"syntax_string_attr", "italic">>>>,
     <<<<"background", "bold">>>>,
     <<<<"syntax_keyword_attr", "bold\nforeground=#123456">>>>,
     <<<<"x\nselection", "#654321">>>>,
     <<<<"a=b", "c=d">>>>}

WriteNames == {"protanopia", "st-patricks", "a=b", "x"}

InitWrite ==
    /\ pc = "write"
    /\ ti = 1
    /\ dir = NoDir
    /\ dir0 = NoDir
    /\ globbed = {}
    /\ theme_count = 0
    /\ left = 0
    /\ last = NoCall
    /\ written = <<>>
    /\ \E m \in WriteMappings, a \in WriteAttrs, n \in WriteNames,
          g \in {"dark_gen", "light_gen"} :
          /\ table = <<[name |-> n, hues |-> <<0, 0, 0>>, sat |-> <<40, 80>>,
                        attrs |-> a]>>
          /\ cur = [StartGenerate(g, a, "write") EXCEPT !.i = Len(ROLES) + 1,
                                                        !.theme = m]
          /\ call = NoCall
          /\ out = (g :> <<m, a>>)
          /\ gens = (g :> ThemeGenerator(n, <<0, 0, 0>>, g = "dark_gen", <<40, 80>>))
          /\ returned = (g :> {})

NextWrite == WriteTheme

SpecWrite == InitWrite /\ [][NextWrite]_vars

(***************************************************************************)
(* Properties.                                                             *)
(***************************************************************************)
Values(m) == {m[k] : k \in DOMAIN m}

\* C1: for every entry of the shipped table and both variants, the mapping
\* generate() returns on a fresh instance binds 89 role keys to 89 pairwise
\* distinct colours, and no call made on the way took the exhaustion path of
\* _get_unique_color (none made 100 attempts, none returned a used colour)
C1_AllDistinct ==
    /\ \A g \in DOMAIN out :
          /\ Cardinality(DOMAIN out[g][1]) = 89
          /\ Cardinality(Values(out[g][1])) = 89
    /\ last.kind = "derive" => (~last.dup /\ last.attempts < MaxAttempts)

\* C1 witness: generate() has returned the dark and the light mapping of a
\* table entry, 89 distinct colours each, after perturbing colliding
\* candidates in both
C1_Witness ==
    /\ pc = "write"
    /\ ti = 2
    /\ DOMAIN out = {"dark_gen", "light_gen"}
    /\ \A g \in DOMAIN out : Cardinality(Values(out[g][1])) = 89
    /\ \A g \in DOMAIN gens : gens[g].color_counter > 0

\* C2: _get_unique_color makes at most 100 attempts, and the colour it
\* returns was in used_colors when the call began only if all 100 attempts
\* were made
C2_BoundedAttempts ==
    last.kind = "derive" =>
        /\ last.attempts <= 100
        /\ last.dup => last.attempts = 100

\* C2 witness: a call exhausted its 100 attempts and returned a used colour
C2_Witness ==
    /\ last.kind = "derive"
    /\ last.attempts = 100
    /\ last.dup

\* C3: each instance's used_colors is exactly the set of colours that this
\* instance has returned so far, whatever calls were made on the others
C3_UsedIsReturned ==
    \A g \in DOMAIN gens : gens[g].used_colors = returned[g]

\* C3 witness: both instances have answered a call and their sets differ
C3_Witness ==
    /\ pc = "calls"
    /\ returned["dark_gen"] # {}
    /\ returned["light_gen"] # {}
    /\ gens["dark_gen"].used_colors # gens["light_gen"].used_colors
    /\ left = 0

\* C4: two fresh instances of one configuration, each running generate()
\* once, return the same mapping of the same 89 keys, and return the attrs
\* they were given
C4_Deterministic ==
    DOMAIN out = {"first", "second"} =>
        /\ out["first"][1] = out["second"][1]
        /\ DOMAIN out["first"][1] = RoleKeys
        /\ Cardinality(DOMAIN out["first"][1]) = 89
        /\ \A g \in DOMAIN out : out[g][2] = table[1].attrs

\* C4 witness: both instances have returned, the attrs are not empty and the
\* runs had to perturb colliding candidates
C4_Witness ==
    /\ DOMAIN out = {"first", "second"}
    /\ table[1].attrs # <<>>
    /\ gens["first"].color_counter > 0
    /\ gens["second"].color_counter > 0

\* the files main() writes
GeneratedNames ==
    {table[i].name \o "-dark.ini" : i \in 1..Len(table)}
        \cup {table[i].name \o "-light.ini" : i \in 1..Len(table)}

\* the entries main() found that glob("themes/*.ini") does not match
Unmatched == {n \in DOMAIN dir0 : ~IniMatch(n)}

\* C5 as stated: when main() has completed, themes/ holds the dark and the
\* light file of every table entry and nothing else, 2 x N entries, whatever
\* it held before
C5_Original ==
    pc = "done" =>
        /\ DOMAIN dir = GeneratedNames
        /\ theme_count = 2 * Len(table)

\* C5 amended: when main() has completed, themes/ holds the dark and the
\* light file of every table entry and, unchanged, the entries found there
\* that the pattern *.ini does not match, and nothing else; theme_count counts
\* them all
C5_Amended ==
    pc = "done" =>
        /\ DOMAIN dir = GeneratedNames \cup Unmatched
        /\ \A n \in GeneratedNames : dir[n].kind = "file"
        /\ \A n \in Unmatched \ GeneratedNames : dir[n] = dir0[n]
        /\ theme_count = Cardinality(GeneratedNames \cup Unmatched)
        /\ Cardinality(GeneratedNames) = 2 * Len(table)

\* C5 witness: main() has completed in a directory that held a stale theme
\* file, a theme file it regenerates and entries the pattern does not match
C5_Witness ==
    /\ pc = "done"
    /\ {"old-theme.ini", "protanopia-dark.ini", "notes.txt", ".hidden.ini"}
          \subseteq DOMAIN dir0
    /\ "old-theme.ini" \notin DOMAIN dir
    /\ "notes.txt" \in DOMAIN dir

\* the order in which main() is to write its files
ExpectedOrder ==
    [k \in 1..(2 * Len(table)) |->
        table[(k + 1) \div 2].name \o (IF k % 2 = 1 THEN "-dark.ini" ELSE "-light.ini")]

\* C6: the files are written in table order, the dark file of an entry before
\* its light file and both before any file of the next entry, and a step that
\* deletes an entry of themes/ is taken only while nothing has been written
C6_Order ==
    /\ [](/\ Len(written) <= 2 * Len(table)
          /\ written = SubSeq(ExpectedOrder, 1, Len(written)))
    /\ [][(\E n \in DOMAIN dir : n \notin DOMAIN dir')
             => (written = <<>> /\ written' = <<>>)]_vars

\* C6 witness: main() has completed, after deleting two stale theme files and
\* writing every file
C6_Witness ==
    /\ pc = "done"
    /\ {"old-theme.ini", "protanopia-dark.ini"} \subseteq DOMAIN dir0
    /\ "old-theme.ini" \notin DOMAIN dir
    /\ Len(written) = 2 * Len(table)
    /\ Len(table) >= 2

(***************************************************************************)
(* Reading a theme file back: the text is cut into lines, blank lines and  *)
(* lines beginning with '#' are skipped, and each other line holding '='   *)
(* is cut at its first '=' into a key and a value.                         *)
(***************************************************************************)
Positions(s, c) == {i \in 1..Len(s) : CharAt(s, i) = c}

Maximum(S) == CHOOSE x \in S : \A y \in S : y <= x
Minimum(S) == CHOOSE x \in S : \A y \in S : x <= y

\* the lines of s, whose line breaks are at the positions nl, each with the
\* position of the line break (or of the end of s) that ends it
LinesAt(s, nl) ==
    {<<e, SubSeq(s, 1 + Maximum({0} \cup {b \in nl : b < e}), e - 1)>> :
        e \in nl \cup {Len(s) + 1}}

Lines(s) == LinesAt(s, Positions(s, "\n"))

\* a line cut at position i
CutAt(ln, i) == <<ln[1], SubSeq(ln[2], 1, i - 1), SubSeq(ln[2], i + 1, Len(ln[2]))>>

\* the <<position, key, value>> of the key=value lines of s
KeyValues(s) ==
    {CutAt(ln, Minimum(Positions(ln[2], "="))) :
        ln \in {x \in Lines(s) : /\ x[2] # ""
                                 /\ CharAt(x[2], 1) # "#"
                                 /\ Positions(x[2], "=") # {}}}

StartsWith(s, prefix) ==
    Len(s) >= Len(prefix) /\ SubSeq(s, 1, Len(prefix)) = prefix

\* every role key is read back exactly once, with the value of the mapping
ReadsBack(kv, theme_dict) ==
    \A k \in RoleKeys :
        /\ Cardinality({x \in kv : x[2] = k}) = 1
        /\ \A x \in kv : x[2] = k => x[3] = theme_dict[k]

RoundTrip == ReadsBack(KeyValues(dir[written[1]].content), out[cur.gen][1])

\* attrs whose lines read back as attributes: no key or value holds a line
\* break and no key, cut at its first '=', is a role key
PlainAttrs(attrs) ==
    \A i \in 1..Len(attrs) :
        /\ Positions(attrs[i][1] \o attrs[i][2], "\n") = {}
        /\ \A k \in RoleKeys :
              /\ attrs[i][1] # k
              /\ ~StartsWith(attrs[i][1], k \o "=")

\* C7 as stated: for every complete mapping and every attrs, the key=value
\* lines of the file written by write_theme yield each role key exactly once,
\* bound to the value passed in
C7_Original == written # <<>> => RoundTrip

\* C7 amended: the same, for attrs of which no key or value holds a line
\* break and no key, cut at its first '=', is a role key
C7_Amended == (written # <<>> /\ PlainAttrs(table[1].attrs)) => RoundTrip

\* C7 witness: a file is written with attrs that hold '=' and are read back
\* as attributes
C7_Witness ==
    /\ written # <<>>
    /\ table[1].attrs = <<<<"a=b", "c=d">>>>
    /\ PlainAttrs(table[1].attrs)
    /\ RoundTrip

\* C8: every colour of the achromatopsia theme, dark or light, is converted
\* from a saturation of at most 8
C8_Achromatic ==
    (last.kind = "derive" /\ last.name \in {"achromatopsia Dark", "achromatopsia Light"})
        => last.sat <= 8

\* a colour string: '#' and six lowercase hex digits
WellFormed(color) ==
    /\ Len(color) = 7
    /\ CharAt(color, 1) = "#"
    /\ \A i \in 2..7 : Positions("0123456789abcdef", CharAt(color, i)) # {}

\* C9: hsl_to_hex returns "#000000" for a lightness of 0 or below and
\* "#ffffff" for one of 100 or above, whatever the hue and saturation, and
\* always '#' followed by six lowercase hex digits
C9_Clamped ==
    last.kind = "hsl_to_hex" =>
        /\ last.l <= 0 => last.color = "#000000"
        /\ last.l >= 100 => last.color = "#ffffff"
        /\ WellFormed(last.color)

\* C10: a colour returned by _bg_color or _subtle_bg is converted from a
\* lightness below 50 in dark mode and above 50 in light mode, and a colour
\* returned by _fg_color from one above 50 in dark mode and below 50 in light
\* mode
C10_LightnessPolicy ==
    last.kind = "derive" =>
        /\ last.fn \in {"_bg_color", "_subtle_bg"} =>
              IF last.is_dark THEN last.light < 50 ELSE last.light > 50
        /\ last.fn = "_fg_color" =>
              IF last.is_dark THEN last.light > 50 ELSE last.light < 50

\* C11: a colour returned by _warning_color is converted from a hue in
\* [35,60) and saturation 75, one returned by _error_color from a hue in
\* [5,20) and saturation 78, and one returned by _success_color from a hue in
\* [125,150) and saturation 60, in every theme and both modes
C11_AlertBands ==
    last.kind = "derive" =>
        /\ last.fn = "_warning_color" =>
              (35 <= last.hue /\ last.hue < 60 /\ last.sat = 75)
        /\ last.fn = "_error_color" =>
              (5 <= last.hue /\ last.hue < 20 /\ last.sat = 78)
        /\ last.fn = "_success_color" =>
              (125 <= last.hue /\ last.hue < 150 /\ last.sat = 60)

\* C12: within one call of _get_unique_color, the first candidate and the
\* perturbed candidates are pairwise distinct (hue, sat, light) triples: each
\* hue is the one before advanced by 7 modulo 360 and no hue occurs twice;
\* every perturbed candidate has its lightness in [5,95), its saturation in
\* [10,90) and its hue in [0,360)
C12_Candidates ==
    call.kind = "unique" =>
        /\ Len(call.tried) <= MaxAttempts + 1
        /\ \A i, j \in DOMAIN call.tried :
              i # j => /\ call.tried[i] # call.tried[j]
                       /\ call.tried[i][1] # call.tried[j][1]
        /\ \A i \in 2..Len(call.tried) :
              /\ call.tried[i][1] = (call.tried[i - 1][1] + 7) % 360
              /\ 0 <= call.tried[i][1] /\ call.tried[i][1] < 360
              /\ 10 <= call.tried[i][2] /\ call.tried[i][2] < 90
              /\ 5 <= call.tried[i][3] /\ call.tried[i][3] < 95

\* C12 witness: a call has computed its first candidate and 100 perturbed
\* ones, among them one of lightness 94, one of saturation 10 and a hue that
\* wrapped around 360
C12_Witness ==
    /\ call.kind = "unique"
    /\ Len(call.tried) = MaxAttempts + 1
    /\ \E i \in 2..Len(call.tried) : call.tried[i][1] < call.tried[i - 1][1]
    /\ \E i \in 2..Len(call.tried) : call.tried[i][3] = 94
    /\ \E i \in 2..Len(call.tried) : call.tried[i][2] = 10

====
